---- MODULE Spec2Model ----
(***************************************************************************)
(* Model of the policy-enforcer decision pipeline: the tool executor of    *)
(* agent.py, the approval-threshold tool of mcp_server.py, the guardrails  *)
(* of guardrails.py and the orchestration loop PolicyAgent.run /           *)
(* PolicyAgent.run_streaming.                                              *)
(*                                                                         *)
(* Conventions.                                                            *)
(*   - A Python string whose characters matter is a sequence of one-       *)
(*     character strings (<<"e","m","p","0","0","1">>).                    *)
(*   - A JSON value is a tagged record [t, n, s]: t is "none", "num" or    *)
(*     "str"; a dict is a TLA+ record whose DOMAIN is the set of keys.     *)
(*   - Confidences and similarity scores are integer percents (0.6 is 60). *)
(*   - Amounts are whole dollars.                                          *)
(*   - A raised Python exception is the result [kind |-> "raise"].         *)
(***************************************************************************)
EXTENDS Integers, Sequences, FiniteSets, TLC

VARIABLES
    user_query,        \* argument of run / run_streaming (sequence of query tokens)
    mode,              \* "run" or "streaming"
    pc,                \* position of the request, see the actions
    iteration,         \* number of passes of the for loop started so far
    messages,          \* the conversation list `messages`
    tool_calls,        \* the audit trail `tool_calls`
    accumulated_text,  \* run_streaming's accumulated_text
    turn,              \* the model response being processed
    blk,               \* index in turn.content of the block being processed
    tool_results,      \* the list `tool_results` of the current turn
    response,          \* the AgentResponse returned, or NoResponse
    requests,          \* conversations the model was called with, in order
    dispatched,        \* ids of the tool_use blocks given to execute_tool, in order
    model_text,        \* all text the model produced for this request, in order
    last_kind,         \* kind of the previous model turn (bounds the model's behaviour)
    switches,          \* number of times the model changed its kind of turn
    consumer,          \* run_streaming's consumer: "pulling", or "gone" once it stopped
    call,              \* SpecPure: the last pure-function call and its result
    _policy_index,     \* embeddings._policy_index, the global index instance
    constructions,     \* number of PolicyIndex objects constructed in the process
    np_random_state,   \* the state of numpy's global random generator
    threads,           \* SpecIndex: each thread's position in a tool execution
    executions         \* SpecIndex: the tool executions completed, with their outputs

request_vars == <<user_query, mode, pc, iteration, messages, tool_calls,
                  accumulated_text, turn, blk, tool_results, response, requests,
                  dispatched, model_text, last_kind, switches, consumer>>

index_vars == <<_policy_index, constructions, np_random_state, threads, executions>>

vars == <<request_vars, call, index_vars>>

agent_vars == <<request_vars, index_vars>>

-----------------------------------------------------------------------------
(* JSON values                                                             *)

NoneV == [t |-> "none", n |-> 0, s |-> <<>>]
Num(n) == [t |-> "num", n |-> n, s |-> <<>>]
Str(s) == [t |-> "str", n |-> 0, s |-> s]

\* dict.get(key, default)
DictGet(d, key, default) == IF key \in DOMAIN d THEN d[key] ELSE default

\* Python truthiness of a JSON value (None, 0 and "" are falsy)
Truthy(v) ==
    CASE v.t = "none" -> FALSE
      [] v.t = "num" -> v.n # 0
      [] OTHER -> v.s # <<>>

Digits == {"0", "1", "2", "3", "4", "5", "6", "7", "8", "9"}

emp001 == <<"e", "m", "p", "0", "0", "1">>
emp002 == <<"e", "m", "p", "0", "0", "2">>
emp003 == <<"e", "m", "p", "0", "0", "3">>
emp004 == <<"e", "m", "p", "0", "0", "4">>
emp999 == <<"e", "m", "p", "9", "9", "9">>
bob == <<"b", "o", "b">>

travel == <<"t", "r", "a", "v", "e", "l">>
software == <<"s", "o", "f", "t", "w", "a", "r", "e">>
flight == <<"f", "l", "i", "g", "h", "t">>
hotel == <<"h", "o", "t", "e", "l">>
equipment == <<"e", "q", "u", "i", "p", "m", "e", "n", "t">>
meals == <<"m", "e", "a", "l", "s">>
json == <<"j", "s", "o", "n">>
markdown == <<"m", "a", "r", "k", "d", "o", "w", "n">>
q_fly == <<"f", "l", "y">>
q_hi == <<"h", "i">>

-----------------------------------------------------------------------------
(* Employee directory                                                      *)

\* The employee records the tools look up, keyed by id.
EMPLOYEE_DATABASE ==
    [id \in {emp001, emp002, emp003, emp004} |->
        [id |-> id,
         level |-> CASE id = emp001 -> 5
                     [] id = emp002 -> 9
                     [] id = emp003 -> 11
                     [] OTHER -> 3]]

\* EMPLOYEE_DATABASE.get(employee_id): the record, or NoEmployee for None
NoEmployee == [id |-> <<>>, level |-> 0]

LookupEmployee(db, v) ==
    IF v.t = "str" /\ v.s \in DOMAIN db THEN db[v.s] ELSE NoEmployee

-----------------------------------------------------------------------------
(* Retrieval (only what the policy-search tool needs)                      *)

NumChunks == 4
TOP_K_CHUNKS == 3
RETRIEVAL_CONFIDENCE_THRESHOLD == 75

q_tie == <<"t", "i", "e">>

\* np.dot(self._embedding_matrix, query_embedding): one score per chunk, fixed
\* by the contents of the query and of the chunk (47, 94, 41, 88 for q_fly).
\* For q_tie all chunks but the last have the same content, hence the same
\* score, and the last one points away from the query.
QueryScores(query) ==
    [c \in 1..NumChunks |->
        CASE query = Str(q_fly) -> (47 * c) % 100
          [] query = Str(q_tie) -> (IF c = NumChunks THEN 0 - 20 ELSE 80)
          [] OTHER -> (13 * c) % 100]

\* indices of the n best scores, best first: what a stable argsort followed by
\* [::-1] gives (among equal scores the later chunk comes first)
RECURSIVE BestFirst(_, _, _)
BestFirst(scores, among, n) ==
    IF n = 0 \/ among = {} THEN <<>>
    ELSE LET best == CHOOSE i \in among :
                        \A j \in among :
                            scores[i] > scores[j] \/ (scores[i] = scores[j] /\ i >= j)
         IN <<best>> \o BestFirst(scores, among \ {best}, n - 1)

\* the permutations of 1..n, as sequences
IndexOrders(n) ==
    {p \in [1..n -> 1..n] : \A i, j \in 1..n : p[i] = p[j] => i = j}

\* np.argsort(scores): an index order that puts the scores in ascending order.
\* The default kind is an unstable quicksort, so equal scores may come out in
\* any order: every such order is a possible result.
ArgSorts(scores) ==
    {p \in IndexOrders(Len(scores)) :
        \A i \in 1..(Len(scores) - 1) : scores[p[i]] <= scores[p[i + 1]]}

\* list[::-1]
Reversed(list) == [i \in 1..Len(list) |-> list[Len(list) + 1 - i]]

\* Python's list[:n] for an int n (negative n counts from the end)
SliceTo(list, n) ==
    LET stop == IF n >= 0 THEN (IF n < Len(list) THEN n ELSE Len(list))
                ELSE (IF Len(list) + n > 0 THEN Len(list) + n ELSE 0)
    IN SubSeq(list, 1, stop)

\* PolicyIndex.search from the scores on, sorted being the result of np.argsort
search_by(scores, sorted, top_k) ==
    LET top_indices == SliceTo(Reversed(sorted), top_k)
    IN [k \in 1..Len(top_indices) |->
           [chunk |-> top_indices[k], score |-> scores[top_indices[k]]]]

\* PolicyIndex.search
search(query, top_k) ==
    LET scores == QueryScores(query)
    IN search_by(scores, Reversed(BestFirst(scores, 1..NumChunks, NumChunks)), top_k)

\* the comparison with the threshold made strict
is_confident_at_strict(r, threshold) == r.score > threshold

\* RetrievalResult.is_confident under a configured threshold
is_confident_at(r, threshold) == r.score >= threshold

\* RetrievalResult.is_confident
is_confident(r) == is_confident_at(r, RETRIEVAL_CONFIDENCE_THRESHOLD)

\* any(r.is_confident for r in results) under a configured threshold
any_confident_at(results, threshold) ==
    \E k \in 1..Len(results) : is_confident_at(results[k], threshold)

\* PolicyIndex.search_with_threshold
search_with_threshold(query, top_k) ==
    LET results == search(query, top_k)
    IN [results |-> results,
        is_confident |-> any_confident_at(results, RETRIEVAL_CONFIDENCE_THRESHOLD)]

\* search_policies
search_policies(query) == search_with_threshold(query, TOP_K_CHUNKS)

-----------------------------------------------------------------------------
(* agent.py: execute_tool                                                  *)

Raise(exc) == [kind |-> "raise", exc |-> exc]
ErrorPayload(what) == [kind |-> "error", error |-> what]

execute_tool(tool_name, tool_input) ==
    IF tool_name = "policy_get_employee_info" THEN
        LET employee_id == DictGet(tool_input, "employee_id", NoneV)
            response_format == DictGet(tool_input, "response_format", Str(json))
            employee == LookupEmployee(EMPLOYEE_DATABASE, employee_id)
        IN IF employee = NoEmployee THEN ErrorPayload("employee not found")
           ELSE IF response_format = Str(json)
                THEN [kind |-> "employee_json", employee |-> employee]
                ELSE [kind |-> "employee_text", employee |-> employee]
    ELSE IF tool_name = "policy_search_manual" THEN
        LET query == DictGet(tool_input, "query", NoneV)
            max_results == DictGet(tool_input, "max_results", Num(3))
            found == search_policies(query)
        IN IF max_results.t = "str" THEN Raise("TypeError")
           ELSE [kind |-> "search",
                 query |-> query,
                 is_confident |-> found.is_confident,
                 results |-> IF max_results.t = "none" THEN found.results
                             ELSE SliceTo(found.results, max_results.n)]
    ELSE IF tool_name = "policy_check_approval_threshold" THEN
        LET employee_id == DictGet(tool_input, "employee_id", NoneV)
            amount == DictGet(tool_input, "amount", NoneV)
            expense_type == DictGet(tool_input, "expense_type", NoneV)
            employee == LookupEmployee(EMPLOYEE_DATABASE, employee_id)
        IN IF employee = NoEmployee THEN ErrorPayload("employee not found")
           ELSE IF amount.t # "num" THEN Raise("TypeError")
           ELSE LET band ==
                        IF amount.n < 500
                        THEN [role |-> "Direct Manager", min_level |-> employee.level + 1]
                        ELSE IF amount.n < 2000
                        THEN [role |-> "Department Head", min_level |-> 7]
                        ELSE IF amount.n < 10000
                        THEN [role |-> "VP", min_level |-> 11]
                        ELSE [role |-> "CFO", min_level |-> 13]
                IN [kind |-> "approval",
                    employee |-> employee,
                    amount |-> amount.n,
                    expense_type |-> expense_type,
                    required_approver_level |-> band.role,
                    minimum_approver_level_number |-> band.min_level,
                    can_self_approve |-> FALSE]
    ELSE ErrorPayload("unknown tool")

-----------------------------------------------------------------------------
(* mcp_server.py: input models                                             *)

\* pattern=r"^emp\d{3}$"
MatchesEmployeeIdPattern(s) ==
    /\ Len(s) = 6
    /\ SubSeq(s, 1, 3) = <<"e", "m", "p">>
    /\ \A i \in 4..6 : s[i] \in Digits

\* ResponseFormat(str, Enum)
IsResponseFormat(v) == v.t = "str" /\ v.s \in {json, markdown}

\* GetEmployeeInput (extra="forbid")
GetEmployeeInput(input) ==
    /\ DOMAIN input \subseteq {"employee_id", "response_format"}
    /\ "employee_id" \in DOMAIN input
    /\ input.employee_id.t = "str"
    /\ Len(input.employee_id.s) >= 1
    /\ Len(input.employee_id.s) <= 50
    /\ MatchesEmployeeIdPattern(input.employee_id.s)
    /\ "response_format" \in DOMAIN input => IsResponseFormat(input.response_format)

\* SearchPolicyInput (extra="forbid")
SearchPolicyInput(input) ==
    /\ DOMAIN input \subseteq {"query", "max_results", "response_format"}
    /\ "query" \in DOMAIN input
    /\ input.query.t = "str"
    /\ Len(input.query.s) >= 3
    /\ Len(input.query.s) <= 500
    /\ "max_results" \in DOMAIN input =>
          /\ input.max_results.t = "num"
          /\ input.max_results.n >= 1
          /\ input.max_results.n <= 10
    /\ "response_format" \in DOMAIN input => IsResponseFormat(input.response_format)

\* CheckApprovalInput (extra="forbid"); the amounts of type str the model
\* draws are not numerals, so no str is coerced to a float here.
CheckApprovalInput(input) ==
    /\ DOMAIN input = {"employee_id", "amount", "expense_type"}
    /\ input.employee_id.t = "str"
    /\ MatchesEmployeeIdPattern(input.employee_id.s)
    /\ input.amount.t = "num"
    /\ input.amount.n > 0
    /\ input.amount.n <= 1000000
    /\ input.expense_type.t = "str"
    /\ Len(input.expense_type.s) >= 1
    /\ Len(input.expense_type.s) <= 100

\* the input model declared for a tool name; no model for an unknown name
DeclaredSchema(tool_name, input) ==
    CASE tool_name = "policy_get_employee_info" -> GetEmployeeInput(input)
      [] tool_name = "policy_search_manual" -> SearchPolicyInput(input)
      [] tool_name = "policy_check_approval_threshold" -> CheckApprovalInput(input)
      [] OTHER -> FALSE

-----------------------------------------------------------------------------
(* agent.py TOOLS / mcp_server.py CLAUDE_TOOLS: the input_schema of each   *)
(* tool as advertised to the model (JSON Schema: a property is checked     *)
(* only when present, properties that are not listed are allowed)          *)

AdvertisedSchema(tool_name, input) ==
    CASE tool_name = "policy_get_employee_info" ->
           /\ "employee_id" \in DOMAIN input
           /\ input.employee_id.t = "str"
           /\ MatchesEmployeeIdPattern(input.employee_id.s)
           /\ "response_format" \in DOMAIN input =>
                 /\ input.response_format.t = "str"
                 /\ input.response_format.s \in {json, markdown}
      [] tool_name = "policy_search_manual" ->
           /\ "query" \in DOMAIN input
           /\ input.query.t = "str"
           /\ Len(input.query.s) >= 3
           /\ Len(input.query.s) <= 500
           /\ "max_results" \in DOMAIN input =>
                 /\ input.max_results.t = "num"
                 /\ input.max_results.n >= 1
                 /\ input.max_results.n <= 10
           /\ "response_format" \in DOMAIN input =>
                 /\ input.response_format.t = "str"
                 /\ input.response_format.s \in {json, markdown}
      [] tool_name = "policy_check_approval_threshold" ->
           /\ {"employee_id", "amount", "expense_type"} \subseteq DOMAIN input
           /\ input.employee_id.t = "str"
           /\ MatchesEmployeeIdPattern(input.employee_id.s)
           /\ input.amount.t = "num"
           /\ input.amount.n >= 0
           /\ input.amount.n <= 1000000
           /\ input.expense_type.t = "str"
      [] OTHER -> FALSE

-----------------------------------------------------------------------------
(* mcp_server.py: check_approval_threshold                                 *)

\* sorted(thresholds, key=lambda x: x["amount_limit"]): stable insertion sort
RECURSIVE InsertByLimit(_, _)
InsertByLimit(t, sorted) ==
    IF sorted = <<>> THEN <<t>>
    ELSE IF t.amount_limit < Head(sorted).amount_limit THEN <<t>> \o sorted
    ELSE <<Head(sorted)>> \o InsertByLimit(t, Tail(sorted))

RECURSIVE SortedByLimit(_)
SortedByLimit(thresholds) ==
    IF thresholds = <<>> THEN <<>>
    ELSE InsertByLimit(thresholds[Len(thresholds)],
                       SortedByLimit(SubSeq(thresholds, 1, Len(thresholds) - 1)))

\* the comparison made inclusive
AmountFitsBandInclusive(amount, t) == amount <= t.amount_limit

\* the comparison of the for loop, params.amount < t["amount_limit"]
AmountFitsBand(amount, t) == amount < t.amount_limit

\* the for loop with break: the first threshold the amount fits, 0 when none
RECURSIVE FirstFit(_, _, _)
FirstFit(amount, thresholds, i) ==
    IF i > Len(thresholds) THEN 0
    ELSE IF AmountFitsBand(amount, thresholds[i]) THEN i
    ELSE FirstFit(amount, thresholds, i + 1)

\* can_self_approve = rules.get("general", {}).get("self_approval_allowed", False)
SelfApprovalOf(rules) ==
    DictGet(DictGet(rules, "general", <<>>), "self_approval_allowed", FALSE)

\* _get_approval_recommendation: which advisory text is produced (the
\* expense types of the inputs are lower-case already)
_get_approval_recommendation(amount, expense_type, rules) ==
    LET sorted_thresholds == SortedByLimit(DictGet(rules, "thresholds", <<>>))
        highest_limit == sorted_thresholds[Len(sorted_thresholds)].amount_limit
    IN IF sorted_thresholds = <<>> THEN "Standard approval process applies."
       ELSE IF amount > highest_limit
       THEN "requires default role approval"
       ELSE IF amount > 10000 THEN "requires high-level approval"
       ELSE IF expense_type.s \in {travel, flight, hotel}
       THEN "Travel expenses should be booked through the portal"
       ELSE IF expense_type.s \in {software, equipment}
       THEN "Software and equipment purchases must be on the vendor list"
       ELSE "Standard approval process applies. Submit with receipts."

\* an approval check whose minimum level depends on the expense type
check_approval_threshold_by_type(params, rules, employee_db) ==
    LET employee == LookupEmployee(employee_db, params.employee_id)
    IN IF employee = NoEmployee THEN ErrorPayload("employee not found")
       ELSE [kind |-> "approval",
             employee |-> employee,
             amount |-> params.amount.n,
             expense_type |-> params.expense_type,
             required_approver_level |-> "CFO",
             minimum_approver_level_number |->
                 IF params.expense_type.s = software THEN 13 ELSE 12,
             can_self_approve |-> SelfApprovalOf(rules),
             recommendation |->
                 _get_approval_recommendation(params.amount.n, params.expense_type,
                                              rules)]

\* check_approval_threshold(params) with the rules and employees it loads
check_approval_threshold(params, rules, employee_db) ==
    LET employee == LookupEmployee(employee_db, params.employee_id)
        default_rule == DictGet(rules, "default_threshold",
                                [role |-> "CFO", min_level_absolute |-> 13])
        thresholds == SortedByLimit(DictGet(rules, "thresholds", <<>>))
        hit == FirstFit(params.amount.n, thresholds, 1)
        t == thresholds[hit]
        required_level == IF hit = 0 THEN default_rule.role ELSE t.role
        min_approver_level ==
            IF hit = 0 THEN default_rule.min_level_absolute
            ELSE IF "min_level_offset" \in DOMAIN t
                 THEN employee.level + t.min_level_offset
                 ELSE DictGet(t, "min_level_absolute", 99)
    IN IF employee = NoEmployee THEN ErrorPayload("employee not found")
       ELSE [kind |-> "approval",
             employee |-> employee,
             amount |-> params.amount.n,
             expense_type |-> params.expense_type,
             required_approver_level |-> required_level,
             minimum_approver_level_number |-> min_approver_level,
             can_self_approve |-> SelfApprovalOf(rules),
             recommendation |->
                 _get_approval_recommendation(params.amount.n, params.expense_type,
                                              rules)]

-----------------------------------------------------------------------------
(* guardrails.py: should_escalate                                          *)

\* should_escalate without its high-value clause
should_escalate_no_amount(retrieval_confidence, response_confidence, amount) ==
    IF retrieval_confidence < 60
    THEN [escalate |-> TRUE, reason |-> "retrieval"]
    ELSE IF response_confidence < 70
    THEN [escalate |-> TRUE, reason |-> "decision"]
    ELSE [escalate |-> FALSE, reason |-> ""]

\* should_escalate(retrieval_confidence, response_confidence, amount);
\* the first component of the returned pair and a tag for the reason
should_escalate(retrieval_confidence, response_confidence, amount) ==
    IF retrieval_confidence < 60
    THEN [escalate |-> TRUE, reason |-> "retrieval"]
    ELSE IF response_confidence < 70
    THEN [escalate |-> TRUE, reason |-> "decision"]
    ELSE IF Truthy(amount) /\ amount.n > 5000
    THEN [escalate |-> TRUE, reason |-> "amount"]
    ELSE [escalate |-> FALSE, reason |-> ""]

-----------------------------------------------------------------------------
(* guardrails.py: InputGuardrails                                          *)
(*                                                                         *)
(* A query is a sequence of tokens, each standing for a piece of text:     *)
(*   "a" the letter a; "SP" a space; "NL" a newline; "NUL" \x00;           *)
(*   "BEL" \x07; "over" and "ride:" the two halves of the configured       *)
(*   phrase "override:"; "%41" a URL-encoded byte; "x2000" 2000 letters x; *)
(*   "SP2001" 2001 spaces.                                                 *)
(* The query is the concatenation of the texts of its tokens.              *)

MAX_INPUT_LENGTH == 2000

QueryTokens == {"a", "SP", "NL", "NUL", "BEL", "over", "ride:", "%41", "x2000",
                "SP2001"}

TokenLen(tok) ==
    CASE tok = "over" -> 4
      [] tok = "ride:" -> 5
      [] tok = "%41" -> 3
      [] tok = "x2000" -> 2000
      [] tok = "SP2001" -> 2001
      [] OTHER -> 1

\* characters str.split() and str.strip() treat as whitespace
IsWhitespace(tok) == tok \in {"SP", "NL", "SP2001"}

\* ord(char) < 32 or ord(char) == 127
IsControl(tok) == tok \in {"NL", "NUL", "BEL"}

RECURSIVE TextLen(_)
TextLen(text) == IF text = <<>> THEN 0 ELSE TokenLen(Head(text)) + TextLen(Tail(text))

\* text.strip()
RECURSIVE LStrip(_)
LStrip(text) ==
    IF text # <<>> /\ IsWhitespace(Head(text)) THEN LStrip(Tail(text)) ELSE text

RECURSIVE RStrip(_)
RStrip(text) ==
    IF text # <<>> /\ IsWhitespace(text[Len(text)])
    THEN RStrip(SubSeq(text, 1, Len(text) - 1))
    ELSE text

Strip(text) == RStrip(LStrip(text))

\* " ".join(text.split()): runs of whitespace become one space, none at the ends
RECURSIVE CollapseRuns(_)
CollapseRuns(text) ==
    IF text = <<>> THEN <<>>
    ELSE IF IsWhitespace(Head(text))
         THEN <<"SP">> \o CollapseRuns(LStrip(text))
         ELSE <<Head(text)>> \o CollapseRuns(Tail(text))

JoinSplit(text) == CollapseRuns(Strip(text))

\* the text without the tokens of the set drop
RECURSIVE Without(_, _)
Without(text, drop) ==
    IF text = <<>> THEN <<>>
    ELSE (IF Head(text) \in drop THEN <<>> ELSE <<Head(text)>>) \o Without(Tail(text), drop)

\* InputGuardrails._check_injection_patterns: the phrase "override:" occurs
_check_injection_patterns(text) ==
    \E i \in 1..(Len(text) - 1) : text[i] = "over" /\ text[i + 1] = "ride:"

\* InputGuardrails._check_encoding_attacks: %[0-9a-fA-F]{2} occurs
_check_encoding_attacks(text) == \E i \in 1..Len(text) : text[i] = "%41"

\* InputGuardrails._sanitize
_sanitize(text) ==
    LET collapsed == JoinSplit(text)
        no_nul == Without(collapsed, {"NUL"})
        printable == Without(no_nul, {tok \in QueryTokens : IsControl(tok) /\ tok # "NL"})
    IN Strip(printable)

\* validate with the empty check made before the length check
validate_empty_first(user_input) ==
    IF Strip(user_input) = <<>>
    THEN [is_valid |-> FALSE, error_message |-> "Input cannot be empty",
          sanitized_input |-> NoneV, risk_level |-> "low"]
    ELSE IF TextLen(user_input) > MAX_INPUT_LENGTH
    THEN [is_valid |-> FALSE, error_message |-> "Input exceeds maximum length",
          sanitized_input |-> NoneV, risk_level |-> "medium"]
    ELSE IF _check_injection_patterns(user_input) \/ _check_encoding_attacks(user_input)
    THEN [is_valid |-> FALSE,
          error_message |-> "Input contains potentially harmful content",
          sanitized_input |-> NoneV, risk_level |-> "high"]
    ELSE [is_valid |-> TRUE, error_message |-> "None",
          sanitized_input |-> Str(_sanitize(user_input)), risk_level |-> "low"]

\* validate returning the sanitized text with every verdict
validate_always_sanitized(user_input) ==
    [is_valid |-> /\ TextLen(user_input) <= MAX_INPUT_LENGTH
                  /\ Strip(user_input) # <<>>
                  /\ ~_check_injection_patterns(user_input)
                  /\ ~_check_encoding_attacks(user_input),
     error_message |-> "None",
     sanitized_input |-> Str(_sanitize(user_input)),
     risk_level |-> "low"]

\* InputGuardrails.validate
validate(user_input) ==
    IF TextLen(user_input) > MAX_INPUT_LENGTH
    THEN [is_valid |-> FALSE, error_message |-> "Input exceeds maximum length",
          sanitized_input |-> NoneV, risk_level |-> "medium"]
    ELSE IF Strip(user_input) = <<>>
    THEN [is_valid |-> FALSE, error_message |-> "Input cannot be empty",
          sanitized_input |-> NoneV, risk_level |-> "low"]
    ELSE IF _check_injection_patterns(user_input)
    THEN [is_valid |-> FALSE,
          error_message |-> "Input contains potentially harmful content",
          sanitized_input |-> NoneV, risk_level |-> "high"]
    ELSE IF _check_encoding_attacks(user_input)
    THEN [is_valid |-> FALSE, error_message |-> "Input contains suspicious encoding",
          sanitized_input |-> NoneV, risk_level |-> "high"]
    ELSE [is_valid |-> TRUE, error_message |-> "None",
          sanitized_input |-> Str(_sanitize(user_input)), risk_level |-> "low"]

\* GuardrailsPipeline.validate_input
validate_input(user_input) == validate(user_input)

-----------------------------------------------------------------------------
(* guardrails.py: OutputGuardrails                                         *)
(*                                                                         *)
(* The text between the fences of a JSON block is a payload                *)
(* [syntax, data]: syntax is "malformed" (json.loads fails), "array"       *)
(* (valid JSON that is not an object) or "object", and then data is the    *)
(* dict. The field reason holds the length of the reason string.           *)

\* Field constraints of PolicyResponse
PolicyResponseValid(data) ==
    /\ {"approved", "reason", "policy_reference", "confidence"} \subseteq DOMAIN data
    /\ data.reason >= 10
    /\ data.confidence >= 0
    /\ data.confidence <= 100

\* PolicyResponse(**data) for data that satisfies the constraints
PolicyResponse(data) ==
    [approved |-> data.approved,
     reason |-> data.reason,
     policy_reference |-> data.policy_reference,
     confidence |-> data.confidence,
     requires_escalation |-> DictGet(data, "requires_escalation", FALSE)]

\* validate_structured_response without the low-confidence rule
validate_structured_response_schema_only(payload) ==
    IF payload.syntax = "malformed"
    THEN [kind |-> "return", is_valid |-> FALSE, response |-> NoneV,
          error |-> "Invalid JSON"]
    ELSE IF payload.syntax # "object" THEN Raise("TypeError")
    ELSE IF ~PolicyResponseValid(payload.data)
    THEN [kind |-> "return", is_valid |-> FALSE, response |-> NoneV,
          error |-> "Schema validation failed"]
    ELSE [kind |-> "return", is_valid |-> TRUE,
          response |-> PolicyResponse(payload.data), error |-> "None"]

\* OutputGuardrails.validate_structured_response
validate_structured_response(payload) ==
    IF payload.syntax = "malformed"
    THEN [kind |-> "return", is_valid |-> FALSE, response |-> NoneV,
          error |-> "Invalid JSON"]
    ELSE IF payload.syntax # "object" THEN Raise("TypeError")
    ELSE IF ~PolicyResponseValid(payload.data)
    THEN [kind |-> "return", is_valid |-> FALSE, response |-> NoneV,
          error |-> "Schema validation failed"]
    ELSE IF PolicyResponse(payload.data).confidence < 50
            /\ ~PolicyResponse(payload.data).requires_escalation
    THEN [kind |-> "return", is_valid |-> FALSE, response |-> NoneV,
          error |-> "Low confidence decisions should be flagged for escalation"]
    ELSE [kind |-> "return", is_valid |-> TRUE,
          response |-> PolicyResponse(payload.data), error |-> "None"]

\* GuardrailsPipeline.validate_output
validate_output(payload) == validate_structured_response(payload)

-----------------------------------------------------------------------------
(* The model's side of the conversation                                    *)
(*                                                                         *)
(* A text is a sequence of pieces: Prose (text without a fence) or         *)
(* Fenced(payload), a ```json ... ``` block. A model response is           *)
(* [stop_reason, content], content a sequence of text and tool_use blocks. *)

Prose == [fence |-> FALSE]
Fenced(payload) == [fence |-> TRUE, payload |-> payload]

TextBlock(text) == [type |-> "text", text |-> text]
ToolUse(id, name, input) == [type |-> "tool_use", id |-> id, name |-> name, input |-> input]

Decision(confidence, reason_len, escalation) ==
    [syntax |-> "object",
     data |-> [approved |-> FALSE, reason |-> reason_len,
               policy_reference |-> "travel-001", confidence |-> confidence,
               requires_escalation |-> escalation]]

\* the kinds of turn the model may answer with
ToolKinds == {"lookup_then_approval", "approval_no_amount", "search_then_unknown",
              "search_bad_max", "draft_then_lookup"}

FinalKinds == {"final_ok", "final_mid", "final_low", "final_low_escalated",
               "final_short_reason", "final_prose", "final_malformed", "final_array"}

OtherKinds == {"truncated"}

TurnKinds == ToolKinds \cup OtherKinds \cup FinalKinds

\* the response of the given kind in pass `it` of the loop (ids are unique per run)
ModelTurn(kind, it) ==
    CASE kind = "final_ok" ->
           [stop_reason |-> "end_turn",
            content |-> <<TextBlock(<<Prose, Fenced(Decision(90, 40, FALSE))>>)>>]
      [] kind = "final_mid" ->
           [stop_reason |-> "end_turn",
            content |-> <<TextBlock(<<Prose, Fenced(Decision(60, 40, FALSE))>>)>>]
      [] kind = "final_low" ->
           [stop_reason |-> "end_turn",
            content |-> <<TextBlock(<<Fenced(Decision(40, 40, FALSE))>>)>>]
      [] kind = "final_low_escalated" ->
           [stop_reason |-> "end_turn",
            content |-> <<TextBlock(<<Prose>>),
                          TextBlock(<<Fenced(Decision(40, 40, TRUE)), Prose>>)>>]
      [] kind = "final_short_reason" ->
           [stop_reason |-> "end_turn",
            content |-> <<TextBlock(<<Fenced(Decision(90, 5, FALSE))>>)>>]
      [] kind = "final_prose" ->
           [stop_reason |-> "end_turn", content |-> <<TextBlock(<<Prose>>)>>]
      [] kind = "final_malformed" ->
           [stop_reason |-> "end_turn",
            content |-> <<TextBlock(<<Fenced([syntax |-> "malformed"]),
                                      Fenced(Decision(90, 40, FALSE))>>)>>]
      [] kind = "final_array" ->
           [stop_reason |-> "end_turn",
            content |-> <<TextBlock(<<Prose, Fenced([syntax |-> "array"])>>)>>]
      [] kind = "lookup_then_approval" ->
           [stop_reason |-> "tool_use",
            content |-> <<TextBlock(<<Prose>>),
                          ToolUse(<<it, 2>>, "policy_get_employee_info",
                                  [employee_id |-> Str(emp001)]),
                          ToolUse(<<it, 3>>, "policy_check_approval_threshold",
                                  [employee_id |-> Str(emp001), amount |-> Num(15000),
                                   expense_type |-> Str(travel)])>>]
      [] kind = "approval_no_amount" ->
           [stop_reason |-> "tool_use",
            content |-> <<ToolUse(<<it, 1>>, "policy_check_approval_threshold",
                                  [employee_id |-> Str(emp001),
                                   expense_type |-> Str(travel)]),
                          ToolUse(<<it, 2>>, "policy_get_employee_info",
                                  [employee_id |-> Str(emp001)])>>]
      [] kind = "search_then_unknown" ->
           [stop_reason |-> "tool_use",
            content |-> <<ToolUse(<<it, 1>>, "policy_search_manual",
                                  [query |-> Str(q_fly), max_results |-> Num(2)]),
                          TextBlock(<<Prose>>),
                          ToolUse(<<it, 3>>, "policy_delete_everything",
                                  [employee_id |-> Str(emp999)])>>]
      [] kind = "draft_then_lookup" ->
           [stop_reason |-> "tool_use",
            content |-> <<TextBlock(<<Prose, Fenced(Decision(90, 40, FALSE))>>),
                          ToolUse(<<it, 2>>, "policy_get_employee_info",
                                  [employee_id |-> Str(emp002)])>>]
      [] kind = "search_bad_max" ->
           [stop_reason |-> "tool_use",
            content |-> <<TextBlock(<<Prose>>),
                          ToolUse(<<it, 2>>, "policy_search_manual",
                                  [query |-> Str(q_fly), max_results |-> Str(q_hi)])>>]
      [] OTHER ->
           [stop_reason |-> "max_tokens", content |-> <<TextBlock(<<Prose>>)>>]

-----------------------------------------------------------------------------
(* agent.py: PolicyAgent                                                   *)

MAX_ITERATIONS == 10

NoResponse == [returned |-> FALSE]
NoTurn == [stop_reason |-> "none", content |-> <<>>]

AgentResponse(raw_response, structured_response, tcalls, error) ==
    [raw_response |-> raw_response,
     structured_response |-> structured_response,
     tool_calls |-> tcalls,
     error |-> error]

\* prompts.FEW_SHOT_EXAMPLES: twelve fixed messages
FEW_SHOT_EXAMPLES ==
    [k \in 1..12 |-> [role |-> IF k \in {1, 3, 5, 7, 9, 11} THEN "user" ELSE "assistant",
                      example |-> k]]

\* prompts.build_messages
build_messages(query) == FEW_SHOT_EXAMPLES \o <<[role |-> "user", query |-> query]>>

\* re.search(r'```json\s*(.*?)\s*```', ...): index of the first fenced block, or 0
RECURSIVE FirstFenced(_, _)
FirstFenced(text, i) ==
    IF i > Len(text) THEN 0
    ELSE IF text[i].fence THEN i
    ELSE FirstFenced(text, i + 1)

\* PolicyAgent._process_final_response
_process_final_response(response_text, tcalls) ==
    LET match == FirstFenced(response_text, 1)
        checked == validate_output(response_text[match].payload)
    IN IF match # 0 /\ checked.kind = "return" /\ checked.is_valid
       THEN AgentResponse(response_text, checked.response, tcalls, "None")
       ELSE AgentResponse(response_text, NoneV, tcalls, "None")

\* the text of the text blocks of a response, in order
RECURSIVE TextOf(_)
TextOf(content) ==
    IF content = <<>> THEN <<>>
    ELSE (IF Head(content).type = "text" THEN Head(content).text ELSE <<>>)
         \o TextOf(Tail(content))

\* index of the first block of the given type after position `after`, or 0
RECURSIVE NextBlock(_, _, _)
NextBlock(content, after, type) ==
    IF after >= Len(content) THEN 0
    ELSE IF content[after + 1].type = type THEN after + 1
    ELSE NextBlock(content, after + 1, type)

\* one pass of `for block in response.content` of run, from block i on;
\* acc = [raised, tool_calls, tool_results, dispatched]
RECURSIVE RunTools(_, _, _)
RunTools(content, i, acc) ==
    IF i > Len(content) THEN acc
    ELSE IF content[i].type # "tool_use" THEN RunTools(content, i + 1, acc)
    ELSE LET result == execute_tool(content[i].name, content[i].input)
         IN IF result.kind = "raise"
            THEN [acc EXCEPT !.raised = TRUE,
                             !.dispatched = Append(@, content[i].id)]
            ELSE RunTools(content, i + 1,
                    [raised |-> FALSE,
                     tool_calls |-> Append(acc.tool_calls,
                                           [tool |-> content[i].name,
                                            input |-> content[i].input,
                                            output |-> result]),
                     tool_results |-> Append(acc.tool_results,
                                             [type |-> "tool_result",
                                              tool_use_id |-> content[i].id,
                                              content |-> result]),
                     dispatched |-> Append(acc.dispatched, content[i].id)])

-----------------------------------------------------------------------------
(* Bounds and inputs of the agent specification                            *)

\* the model changes its kind of non-final turn at most MaxSwitches times
MaxSwitches == 1

\* the queries a request is started with
AgentQueries ==
    {<<"a", "SP", "SP", "a">>, <<>>, <<"SP", "NL">>,
     <<"over", "ride:">>, <<"a", "%41">>, <<"x2000", "a">>}

NoCall == [op |-> "none"]

\* the threads of the process that execute tools
NumThreads == 2
Threads == 1..NumThreads

\* embeddings._policy_index before the first get_policy_index() (None)
NoIndex == [serial |-> 0, chunks |-> <<>>, embedding_matrix |-> <<>>]

\* PolicyIndex(): the chunks of the policy file and the matrix of their
\* embeddings; serial tells the objects constructed in a process apart
PolicyIndex(serial) ==
    [serial |-> serial,
     chunks |-> [c \in 1..NumChunks |-> c],
     embedding_matrix |-> [c \in 1..NumChunks |-> c]]

\* numpy's global generator: the text it was last seeded with (None before any
\* np.random.seed) and the number of randn(1024) drawn since
EntropyState == [seed |-> NoneV, drawn |-> 0]
doc == <<"d", "o", "c">>
\* after _build_index, which embeds the chunks one after the other
BuiltState == [seed |-> Str(doc), drawn |-> 1]

NoEmbedding == [seed |-> NoneV, offset |-> 0]
IdleThread == [pc |-> "idle", tool_input |-> <<>>, embedding |-> NoEmbedding]
\* the model may answer with a turn of this kind now
KindAllowed(kind) ==
    \/ kind \in FinalKinds
    \/ last_kind \in {"none", kind}
    \/ switches < MaxSwitches

NoteKind(kind) ==
    /\ last_kind' = kind
    /\ switches' = IF last_kind \in {"none", kind} THEN switches ELSE switches + 1

Init ==
    /\ user_query \in AgentQueries
    /\ mode \in {"run", "streaming"}
    /\ pc = "start"
    /\ iteration = 0
    /\ messages = <<>>
    /\ tool_calls = <<>>
    /\ accumulated_text = <<>>
    /\ turn = NoTurn
    /\ blk = 0
    /\ tool_results = <<>>
    /\ response = NoResponse
    /\ requests = <<>>
    /\ dispatched = <<>>
    /\ model_text = <<>>
    /\ last_kind = "none"
    /\ switches = 0
    /\ consumer = "pulling"
    /\ call = NoCall
    /\ _policy_index = PolicyIndex(1)
    /\ constructions = 1
    /\ np_random_state = BuiltState
    /\ threads = [t \in Threads |-> IdleThread]
    /\ executions = {}

-----------------------------------------------------------------------------
(* PolicyAgent.run and PolicyAgent.run_streaming                           *)

\* the body of the generator running whether or not the consumer pulls
ResumedAlways == TRUE

\* run_streaming is a generator: its body runs only while the consumer pulls the
\* next fragment (a suspended generator that is dropped or closed runs no more
\* of the loop); run is an ordinary call
Resumed == mode = "streaming" => consumer = "pulling"

\* the conversation seeded whatever the validation says
ValidateInputIgnored ==
    /\ pc = "start"
    /\ messages' = build_messages(validate_input(user_query).sanitized_input.s)
    /\ pc' = "loop"
    /\ UNCHANGED <<user_query, mode, iteration, tool_calls, accumulated_text, turn,
                   blk, tool_results, response, requests, dispatched, model_text,
                   last_kind, switches, call, consumer, index_vars>>

\* agent.py:234-246 and 322-335: validate the input, seed the conversation.
\* run returns the rejection; run_streaming yields the error text first.
ValidateInput ==
    /\ pc = "start"
    /\ Resumed
    /\ LET validation == validate_input(user_query)
       IN IF ~validation.is_valid
          THEN /\ messages' = messages
               /\ IF mode = "run"
                  THEN /\ response' = AgentResponse(<<>>, NoneV, <<>>,
                                                    validation.error_message)
                       /\ pc' = "done"
                  ELSE /\ response' = response
                       /\ pc' = "rejected"
          ELSE /\ messages' = build_messages(validation.sanitized_input.s)
               /\ response' = response
               /\ pc' = "loop"
    /\ UNCHANGED <<user_query, mode, iteration, tool_calls, accumulated_text, turn,
                   blk, tool_results, requests, dispatched, model_text, last_kind, switches, call, consumer, index_vars>>

\* agent.py:326-331: run_streaming resumed after the yield of the error text
ReturnRejected ==
    /\ pc = "rejected"
    /\ Resumed
    /\ response' = AgentResponse(<<>>, NoneV, <<>>,
                                 validate_input(user_query).error_message)
    /\ pc' = "done"
    /\ UNCHANGED <<user_query, mode, iteration, messages, tool_calls,
                   accumulated_text, turn, blk, tool_results, requests, dispatched,
                   model_text, last_kind, switches, call, consumer, index_vars>>

\* agent.py:250-303: one pass of the loop of run
RunIteration(kind) ==
    /\ mode = "run"
    /\ pc = "loop"
    /\ iteration < MAX_ITERATIONS
    /\ KindAllowed(kind)
    /\ NoteKind(kind)
    /\ LET reply == ModelTurn(kind, iteration)
           done == RunTools(reply.content, 1,
                            [raised |-> FALSE, tool_calls |-> tool_calls,
                             tool_results |-> <<>>, dispatched |-> dispatched])
       IN /\ requests' = Append(requests, messages)
          /\ model_text' = model_text \o TextOf(reply.content)
          /\ turn' = reply
          /\ iteration' = iteration + 1
          /\ IF reply.stop_reason = "end_turn"
             THEN /\ response' = _process_final_response(TextOf(reply.content),
                                                         tool_calls)
                  /\ pc' = "done"
                  /\ UNCHANGED <<messages, tool_calls, tool_results, dispatched>>
             ELSE IF reply.stop_reason = "tool_use"
             THEN /\ tool_calls' = done.tool_calls
                  /\ tool_results' = done.tool_results
                  /\ dispatched' = done.dispatched
                  /\ response' = response
                  /\ IF done.raised
                     THEN /\ messages' = Append(messages,
                                 [role |-> "assistant", content |-> reply.content])
                          /\ pc' = "raised"
                     ELSE /\ messages' = messages \o
                                 <<[role |-> "assistant", content |-> reply.content],
                                   [role |-> "user", results |-> done.tool_results]>>
                          /\ pc' = "loop"
             ELSE /\ pc' = "loop"
                  /\ UNCHANGED <<messages, tool_calls, tool_results, dispatched,
                                 response>>
    /\ UNCHANGED <<user_query, mode, accumulated_text, blk, call, consumer, index_vars>>

\* agent.py:305-310: the loop of run ran out
RunExhausted ==
    /\ mode = "run"
    /\ pc = "loop"
    /\ iteration = MAX_ITERATIONS
    /\ response' = AgentResponse(<<>>, NoneV, tool_calls,
                                 "Maximum iterations reached without final response")
    /\ pc' = "done"
    /\ UNCHANGED <<user_query, mode, iteration, messages, tool_calls,
                   accumulated_text, turn, blk, tool_results, requests, dispatched,
                   model_text, last_kind, switches, call, consumer, index_vars>>

\* agent.py:360-396: run_streaming after the last stream event, up to its next
\* yield, return or model request; text is accumulated_text at that point
AfterStream(reply, text) ==
    IF reply.stop_reason = "end_turn"
    THEN /\ response' = _process_final_response(text, tool_calls)
         /\ pc' = "done"
         /\ UNCHANGED <<messages, tool_results>>
         /\ blk' = 0
    ELSE IF reply.stop_reason = "tool_use"
    THEN LET first == NextBlock(reply.content, 0, "tool_use")
         IN /\ response' = response
            /\ tool_results' = <<>>
            /\ blk' = first
            /\ IF first # 0
               THEN /\ messages' = Append(messages,
                           [role |-> "assistant", content |-> reply.content])
                    /\ pc' = "marker"
               ELSE /\ messages' = messages \o
                           <<[role |-> "assistant", content |-> reply.content],
                             [role |-> "user", results |-> <<>>]>>
                    /\ pc' = "loop"
    ELSE /\ pc' = "loop"
         /\ blk' = 0
         /\ UNCHANGED <<messages, tool_results, response>>

\* agent.py:338-358: run_streaming opens the stream of the next model turn and
\* runs to its first yield
StreamRequest(kind) ==
    /\ mode = "streaming"
    /\ pc = "loop"
    /\ Resumed
    /\ iteration < MAX_ITERATIONS
    /\ KindAllowed(kind)
    /\ NoteKind(kind)
    /\ LET reply == ModelTurn(kind, iteration)
           chunk == NextBlock(reply.content, 0, "text")
       IN /\ requests' = Append(requests, messages)
          /\ model_text' = model_text \o TextOf(reply.content)
          /\ turn' = reply
          /\ iteration' = iteration + 1
          /\ IF chunk # 0
             THEN /\ accumulated_text' = accumulated_text \o reply.content[chunk].text
                  /\ blk' = chunk
                  /\ pc' = "chunk"
                  /\ UNCHANGED <<messages, tool_results, response>>
             ELSE /\ accumulated_text' = accumulated_text
                  /\ AfterStream(reply, accumulated_text)
    /\ UNCHANGED <<user_query, mode, tool_calls, dispatched, call, consumer, index_vars>>

\* agent.py:350-358: run_streaming resumed after the yield of a text chunk
StreamChunk ==
    /\ pc = "chunk"
    /\ Resumed
    /\ LET chunk == NextBlock(turn.content, blk, "text")
       IN IF chunk # 0
          THEN /\ accumulated_text' = accumulated_text \o turn.content[chunk].text
               /\ blk' = chunk
               /\ pc' = "chunk"
               /\ UNCHANGED <<messages, tool_results, response>>
          ELSE /\ accumulated_text' = accumulated_text
               /\ AfterStream(turn, accumulated_text)
    /\ UNCHANGED <<user_query, mode, iteration, tool_calls, turn, requests,
                   dispatched, model_text, last_kind, switches, call, consumer, index_vars>>

\* agent.py:377-396: run_streaming resumed after the yield of a tool-start marker
StreamMarker ==
    /\ pc = "marker"
    /\ Resumed
    /\ LET block == turn.content[blk]
           result == execute_tool(block.name, block.input)
           more == NextBlock(turn.content, blk, "tool_use")
           results == Append(tool_results,
                             [type |-> "tool_result", tool_use_id |-> block.id,
                              content |-> result])
       IN /\ dispatched' = Append(dispatched, block.id)
          /\ IF result.kind = "raise"
             THEN /\ pc' = "raised"
                  /\ UNCHANGED <<tool_calls, tool_results, blk, messages>>
             ELSE /\ tool_calls' = Append(tool_calls,
                                          [tool |-> block.name, input |-> block.input,
                                           output |-> result])
                  /\ tool_results' = results
                  /\ IF more # 0
                     THEN /\ blk' = more
                          /\ pc' = "marker"
                          /\ messages' = messages
                     ELSE /\ blk' = 0
                          /\ pc' = "loop"
                          /\ messages' = Append(messages,
                                            [role |-> "user", results |-> results])
    /\ UNCHANGED <<user_query, mode, iteration, accumulated_text, turn, response,
                   requests, model_text, last_kind, switches, call, consumer, index_vars>>

\* agent.py:398-403: the loop of run_streaming ran out
StreamExhausted ==
    /\ mode = "streaming"
    /\ pc = "loop"
    /\ iteration = MAX_ITERATIONS
    /\ Resumed
    /\ response' = AgentResponse(accumulated_text, NoneV, tool_calls,
                                 "Maximum iterations reached")
    /\ pc' = "done"
    /\ UNCHANGED <<user_query, mode, iteration, messages, tool_calls,
                   accumulated_text, turn, blk, tool_results, requests, dispatched,
                   model_text, last_kind, switches, call, consumer, index_vars>>

\* the consumer of run_streaming stops pulling: it can only do so while the
\* generator is suspended, that is before the first fragment is asked for or at
\* a yield (the error text, a text chunk, a tool-start marker)
Abandon ==
    /\ mode = "streaming"
    /\ consumer = "pulling"
    /\ pc \in {"start", "rejected", "chunk", "marker"}
    /\ consumer' = "gone"
    /\ UNCHANGED <<user_query, mode, pc, iteration, messages, tool_calls,
                   accumulated_text, turn, blk, tool_results, response, requests,
                   dispatched, model_text, last_kind, switches, call, index_vars>>

Next ==
    \/ ValidateInput
    \/ ReturnRejected
    \/ \E kind \in TurnKinds : RunIteration(kind)
    \/ RunExhausted
    \/ \E kind \in TurnKinds : StreamRequest(kind)
    \/ StreamChunk
    \/ StreamMarker
    \/ StreamExhausted
    \/ Abandon

Spec == Init /\ [][Next]_vars

-----------------------------------------------------------------------------
(* SpecPure: the tools and guardrail functions called on bounded inputs    *)

Absent == [absent |-> TRUE]

\* the dict {key: value}, or {} when the key is absent
Field(key, value) == IF value = Absent THEN <<>> ELSE key :> value

ToolNames == {"policy_get_employee_info", "policy_search_manual",
              "policy_check_approval_threshold", "policy_delete_everything"}

EmployeeIdInputs ==
    {Absent, Str(emp001), Str(emp002), Str(emp004), Str(emp999), Str(bob), Num(7)}

AmountInputs ==
    {Absent, Num(-5), Num(0), Num(100), Num(499), Num(500), Num(1500), Num(2000),
     Num(9999), Num(10000), Num(15000), Num(1000000), Num(1000001), Str(bob)}

ToolInputs ==
    {Field("employee_id", e) @@ Field("response_format", f) @@ Field("note", x) :
        e \in EmployeeIdInputs,
        f \in {Absent, Str(json), Str(markdown), Str(bob)},
        x \in {Absent, Str(bob)}}
    \cup
    {Field("query", q) @@ Field("max_results", m) @@ Field("note", x) :
        q \in {Str(q_fly), Str(q_hi)},
        m \in {Absent, Num(-1), Num(0), Num(1), Num(2), Num(10), Num(11), Str(bob)},
        x \in {Absent, Str(bob)}}
    \cup
    {Field("employee_id", e) @@ Field("amount", a) @@ Field("expense_type", t)
        @@ Field("note", x) :
        e \in EmployeeIdInputs,
        a \in AmountInputs,
        t \in {Absent, Str(travel), Str(software)},
        x \in {Absent, Str(bob)}}

\* rule sets (the approval_rules of the rules file)
Ladder(general) ==
    [thresholds |->
        <<[amount_limit |-> 500, role |-> "Direct Manager", min_level_offset |-> 1],
          [amount_limit |-> 2000, role |-> "Department Head", min_level_absolute |-> 7],
          [amount_limit |-> 10000, role |-> "VP", min_level_absolute |-> 11]>>,
     default_threshold |-> [role |-> "CFO", min_level_absolute |-> 13],
     general |-> general]

StandardRules == Ladder([self_approval_allowed |-> FALSE])

ShuffledRules ==
    [StandardRules EXCEPT !.thresholds = <<@[3], @[1], @[2]>>]

SelfApprovalRules == Ladder([self_approval_allowed |-> TRUE])

NoRules == <<>>

OddRules ==
    [thresholds |->
        <<[amount_limit |-> 2000, role |-> "Controller"],
          [amount_limit |-> 500, role |-> "Team Lead", min_level_offset |-> 2],
          [amount_limit |-> 500, role |-> "Peer", min_level_absolute |-> 4]>>]

RuleSets == {StandardRules, ShuffledRules, SelfApprovalRules, NoRules, OddRules}

\* inputs accepted by CheckApprovalInput
CheckApprovalParams ==
    {[employee_id |-> Str(e), amount |-> Num(a), expense_type |-> Str(t)] :
        e \in {emp001, emp002, emp003, emp004, emp999},
        a \in {1, 100, 499, 500, 501, 1500, 1999, 2000, 9999, 10000, 15000, 1000000},
        t \in {travel, software, meals}}

Confidences == {0, 40, 59, 60, 61, 69, 70, 71, 100}

EscalationAmounts == {NoneV, Num(0), Num(100), Num(5000), Num(5001), Num(15000)}

InitPure ==
    /\ user_query = <<>>
    /\ mode = "none"
    /\ pc = "pure"
    /\ iteration = 0
    /\ messages = <<>>
    /\ tool_calls = <<>>
    /\ accumulated_text = <<>>
    /\ turn = NoTurn
    /\ blk = 0
    /\ tool_results = <<>>
    /\ response = NoResponse
    /\ requests = <<>>
    /\ dispatched = <<>>
    /\ model_text = <<>>
    /\ last_kind = "none"
    /\ switches = 0
    /\ consumer = "pulling"
    /\ call = NoCall
    /\ _policy_index = PolicyIndex(1)
    /\ constructions = 1
    /\ np_random_state = BuiltState
    /\ threads = [t \in Threads |-> IdleThread]
    /\ executions = {}

\* the texts of the final-answer JSON blocks given to validate_output
OutputPayloads ==
    {[syntax |-> "malformed"], [syntax |-> "array"], [syntax |-> "number"],
     [syntax |-> "string"], [syntax |-> "null"],
     [syntax |-> "object", data |-> [reason |-> 40, confidence |-> 90]]}
    \cup
    {[syntax |-> "object",
      data |-> [approved |-> TRUE, policy_reference |-> "travel-001",
                reason |-> r, confidence |-> c]
               @@ (IF e = "absent" THEN <<>> ELSE "requires_escalation" :> (e = "true"))] :
        r \in {0, 9, 10, 40},
        c \in {0 - 10, 0, 40, 49, 50, 90, 100, 110},
        e \in {"absent", "true", "false"}}

\* the raw queries given to validate: every text of at most MaxQueryLen tokens
MaxQueryLen == 3
ValidateInputs == UNION {[1..n -> QueryTokens] : n \in 0..MaxQueryLen}

\* the thresholds the retrieval may be configured with (percent)
Thresholds == {0, 41, RETRIEVAL_CONFIDENCE_THRESHOLD, 88, 94, 95, 100}

SearchQueries == {Str(q_fly), Str(q_hi), Str(q_tie)}

\* validate_output(response_text)
CallValidateOutput(payload) ==
    /\ pc = "pure"
    /\ call = NoCall
    /\ call' = [op |-> "validate_output", payload |-> payload,
                result |-> validate_output(payload)]
    /\ UNCHANGED agent_vars

\* validate(user_input), a first time
CallValidate(user_input) ==
    /\ pc = "pure"
    /\ call = NoCall
    /\ call' = [op |-> "validate", user_input |-> user_input, calls |-> 1,
                result |-> validate(user_input)]
    /\ UNCHANGED agent_vars

\* the texts _sanitize is applied to: the short ones and a few longer ones
SanitizeInputs ==
    {text \in ValidateInputs : Len(text) <= 2}
    \cup {<<"a", "SP", "NUL", "SP", "a">>, <<"a", "NL", "BEL", "SP", "a">>,
          <<"SP", "a", "SP", "SP", "a", "NL">>, <<"a", "BEL", "NUL", "a">>}

\* _sanitize(text), and _sanitize applied to its own result
CallSanitize(text) ==
    /\ pc = "pure"
    /\ call = NoCall
    /\ call' = [op |-> "_sanitize", text |-> text, once |-> _sanitize(text),
                twice |-> _sanitize(_sanitize(text))]
    /\ UNCHANGED agent_vars

\* validate(user_input) again on the input of the first call
CallValidateAgain ==
    /\ pc = "pure"
    /\ call.op = "validate"
    /\ call.calls = 1
    /\ call' = [op |-> "validate", user_input |-> call.user_input, calls |-> 2,
                result |-> validate(call.user_input), first |-> call.result]
    /\ UNCHANGED agent_vars

\* a tool input checked against the schema advertised to the model and against
\* the input model of the tool
CallValidateToolInput(tool_name, tool_input) ==
    /\ pc = "pure"
    /\ call = NoCall
    /\ call' = [op |-> "validate_tool_input", tool_name |-> tool_name,
                tool_input |-> tool_input,
                advertised |-> AdvertisedSchema(tool_name, tool_input),
                declared |-> DeclaredSchema(tool_name, tool_input)]
    /\ UNCHANGED agent_vars

\* PolicyIndex.search(query, top_k), sorted being what np.argsort returns
CallSearch(query, top_k, sorted) ==
    /\ pc = "pure"
    /\ call = NoCall
    /\ call' = [op |-> "search", query |-> query, top_k |-> top_k,
                scores |-> QueryScores(query),
                result |-> search_by(QueryScores(query), sorted, top_k)]
    /\ UNCHANGED agent_vars

\* PolicyIndex.search_with_threshold(query, top_k) in a process configured with
\* the threshold; by_threshold is what each other configuration would report
CallSearchWithThreshold(query, top_k, threshold) ==
    /\ pc = "pure"
    /\ call = NoCall
    /\ LET results == search(query, top_k)
       IN call' = [op |-> "search_with_threshold", query |-> query, top_k |-> top_k,
                   threshold |-> threshold,
                   results |-> results,
                   is_confident |->
                       IF threshold = RETRIEVAL_CONFIDENCE_THRESHOLD
                       THEN search_with_threshold(query, top_k).is_confident
                       ELSE any_confident_at(results, threshold),
                   by_threshold |->
                       [t \in Thresholds |-> any_confident_at(results, t)]]
    /\ UNCHANGED agent_vars

\* execute_tool(tool_name, tool_input)
CallExecuteTool(tool_name, tool_input) ==
    /\ pc = "pure"
    /\ call = NoCall
    /\ call' = [op |-> "execute_tool", tool_name |-> tool_name,
                tool_input |-> tool_input,
                result |-> execute_tool(tool_name, tool_input)]
    /\ UNCHANGED agent_vars

\* check_approval_threshold(params) under a rules file
CallCheckApproval(params, rules) ==
    /\ pc = "pure"
    /\ call = NoCall
    /\ CheckApprovalInput(params)
    /\ call' = [op |-> "check_approval_threshold", params |-> params, rules |-> rules,
                result |-> check_approval_threshold(params, rules, EMPLOYEE_DATABASE)]
    /\ UNCHANGED agent_vars

\* should_escalate(retrieval_confidence, response_confidence, amount)
CallShouldEscalate(retrieval_confidence, response_confidence, amount) ==
    /\ pc = "pure"
    /\ call = NoCall
    /\ call' = [op |-> "should_escalate",
                retrieval_confidence |-> retrieval_confidence,
                response_confidence |-> response_confidence,
                amount |-> amount,
                result |-> should_escalate(retrieval_confidence, response_confidence,
                                           amount)]
    /\ UNCHANGED agent_vars

\* the inputs a caller may choose from: none while a call is recorded
Idle(inputs) == IF call = NoCall THEN inputs ELSE {}

NextPure ==
    \/ \E name \in ToolNames, input \in Idle(ToolInputs) : CallExecuteTool(name, input)
    \/ \E params \in Idle(CheckApprovalParams), rules \in RuleSets :
          CallCheckApproval(params, rules)
    \/ \E rc \in Idle(Confidences), dc \in Confidences, amount \in EscalationAmounts :
          CallShouldEscalate(rc, dc, amount)
    \/ \E payload \in Idle(OutputPayloads) : CallValidateOutput(payload)
    \/ \E user_input \in Idle(ValidateInputs) : CallValidate(user_input)
    \/ CallValidateAgain
    \/ \E text \in Idle(SanitizeInputs) : CallSanitize(text)
    \/ \E name \in ToolNames, input \in Idle(ToolInputs) :
          CallValidateToolInput(name, input)
    \/ \E query \in Idle(SearchQueries), top_k \in 0..(NumChunks + 1) :
          \E sorted \in ArgSorts(QueryScores(query)) : CallSearch(query, top_k, sorted)
    \/ \E query \in Idle(SearchQueries), top_k \in 0..(NumChunks + 1),
          threshold \in Thresholds : CallSearchWithThreshold(query, top_k, threshold)

SpecPure == InitPure /\ [][NextPure]_vars

-----------------------------------------------------------------------------
(* SpecIndex: the threads of one process execute tools; the policy-search  *)
(* tool goes through get_policy_index and the mock embedding client        *)
(* (EmbeddingClient._use_mock, the client used without a Voyage key).      *)
(* Each thread executes one tool; a step is a piece of code between two    *)
(* points where another thread may run.                                    *)

IndexToolCalls ==
    {[tool_name |-> "policy_get_employee_info",
      tool_input |-> [employee_id |-> Str(emp001)]],
     [tool_name |-> "policy_check_approval_threshold",
      tool_input |-> [employee_id |-> Str(emp001), amount |-> Num(100),
                      expense_type |-> Str(travel)]],
     [tool_name |-> "policy_search_manual", tool_input |-> [query |-> Str(q_fly)]],
     [tool_name |-> "policy_search_manual",
      tool_input |-> [query |-> Str(q_hi), max_results |-> Num(2)]]}

\* the scores of the chunks against an embedding: those of the query when the
\* embedding is the first draw after seeding with the query, others otherwise
EmbeddingScores(embedding) ==
    IF embedding.offset = 0 THEN QueryScores(embedding.seed)
    ELSE [c \in 1..NumChunks |-> (29 * c + 31 * embedding.offset) % 100]

\* the policy_search_manual branch of execute_tool from the scores on
search_output(tool_input, scores) ==
    LET max_results == DictGet(tool_input, "max_results", Num(3))
        results == search_by(scores, Reversed(BestFirst(scores, 1..NumChunks, NumChunks)),
                             TOP_K_CHUNKS)
    IN [kind |-> "search",
        query |-> tool_input.query,
        is_confident |-> any_confident_at(results, RETRIEVAL_CONFIDENCE_THRESHOLD),
        results |-> SliceTo(results, max_results.n)]

InitIndex ==
    /\ user_query = <<>>
    /\ mode = "none"
    /\ pc = "tools"
    /\ iteration = 0
    /\ messages = <<>>
    /\ tool_calls = <<>>
    /\ accumulated_text = <<>>
    /\ turn = NoTurn
    /\ blk = 0
    /\ tool_results = <<>>
    /\ response = NoResponse
    /\ requests = <<>>
    /\ dispatched = <<>>
    /\ model_text = <<>>
    /\ last_kind = "none"
    /\ switches = 0
    /\ consumer = "pulling"
    /\ call = NoCall
    /\ _policy_index = NoIndex
    /\ constructions = 0
    /\ np_random_state = EntropyState
    /\ threads = [t \in Threads |-> IdleThread]
    /\ executions = {}

\* execute_tool for the two tools that read the employee directory only
ExecuteDirect(t, tool_call) ==
    /\ pc = "tools"
    /\ threads[t].pc = "idle"
    /\ tool_call.tool_name # "policy_search_manual"
    /\ threads' = [threads EXCEPT ![t].pc = "done",
                                   ![t].tool_input = tool_call.tool_input]
    /\ executions' = executions \cup
           {[thread |-> t, tool_name |-> tool_call.tool_name,
             tool_input |-> tool_call.tool_input,
             output |-> execute_tool(tool_call.tool_name, tool_call.tool_input)]}
    /\ UNCHANGED <<request_vars, call, _policy_index, constructions, np_random_state>>

\* execute_tool("policy_search_manual", ...) up to the call of get_policy_index
StartSearch(t, tool_call) ==
    /\ pc = "tools"
    /\ threads[t].pc = "idle"
    /\ tool_call.tool_name = "policy_search_manual"
    /\ threads' = [threads EXCEPT ![t].pc = "get_index",
                                   ![t].tool_input = tool_call.tool_input]
    /\ UNCHANGED <<request_vars, call, _policy_index, constructions, np_random_state,
                   executions>>

\* get_policy_index: `if _policy_index is None`
CheckIndex(t) ==
    /\ threads[t].pc = "get_index"
    /\ threads' = [threads EXCEPT ![t].pc = IF _policy_index = NoIndex THEN "build"
                                            ELSE "seed"]
    /\ UNCHANGED <<request_vars, call, _policy_index, constructions, np_random_state,
                   executions>>

\* get_policy_index: `_policy_index = PolicyIndex()`; _build_index embeds the
\* chunks with the mock client, which reseeds the global generator
BuildIndex(t) ==
    /\ threads[t].pc = "build"
    /\ constructions' = constructions + 1
    /\ _policy_index' = PolicyIndex(constructions + 1)
    /\ np_random_state' = BuiltState
    /\ threads' = [threads EXCEPT ![t].pc = "seed"]
    /\ UNCHANGED <<request_vars, call, executions>>

\* _mock_embed: np.random.seed(hash(text) % (2**32))
SeedQuery(t) ==
    /\ threads[t].pc = "seed"
    /\ np_random_state' = [seed |-> threads[t].tool_input.query, drawn |-> 0]
    /\ threads' = [threads EXCEPT ![t].pc = "draw"]
    /\ UNCHANGED <<request_vars, call, _policy_index, constructions, executions>>

\* _mock_embed: emb = np.random.randn(1024), drawn from the global generator
DrawEmbedding(t) ==
    /\ threads[t].pc = "draw"
    /\ threads' = [threads EXCEPT ![t].pc = "score",
                                   ![t].embedding = [seed |-> np_random_state.seed,
                                                     offset |-> np_random_state.drawn]]
    /\ np_random_state' = [np_random_state EXCEPT !.drawn = @ + 1]
    /\ UNCHANGED <<request_vars, call, _policy_index, constructions, executions>>

\* PolicyIndex.search from the dot product on, and the rest of execute_tool
FinishSearch(t) ==
    /\ threads[t].pc = "score"
    /\ threads' = [threads EXCEPT ![t].pc = "done"]
    /\ executions' = executions \cup
           {[thread |-> t, tool_name |-> "policy_search_manual",
             tool_input |-> threads[t].tool_input,
             output |-> search_output(threads[t].tool_input,
                                      EmbeddingScores(threads[t].embedding))]}
    /\ UNCHANGED <<request_vars, call, _policy_index, constructions, np_random_state>>

NextIndex ==
    \/ \E t \in Threads, tool_call \in IndexToolCalls : ExecuteDirect(t, tool_call)
    \/ \E t \in Threads, tool_call \in IndexToolCalls : StartSearch(t, tool_call)
    \/ \E t \in Threads : CheckIndex(t)
    \/ \E t \in Threads : BuildIndex(t)
    \/ \E t \in Threads : SeedQuery(t)
    \/ \E t \in Threads : DrawEmbedding(t)
    \/ \E t \in Threads : FinishSearch(t)

SpecIndex == InitIndex /\ [][NextIndex]_vars

-----------------------------------------------------------------------------
(* Properties of the orchestration loop (specification Spec)               *)

MaxIterationErrors == {"Maximum iterations reached without final response",
                       "Maximum iterations reached"}

Rejected == ~validate_input(user_query).is_valid

\* the ids of the tool_use blocks of a response, in order
RECURSIVE ToolUseIds(_)
ToolUseIds(content) ==
    IF content = <<>> THEN <<>>
    ELSE (IF Head(content).type = "tool_use" THEN <<Head(content).id>> ELSE <<>>)
         \o ToolUseIds(Tail(content))

\* the ids of the tool_use blocks of all assistant entries of a conversation
RECURSIVE RequestedIds(_)
RequestedIds(conversation) ==
    IF conversation = <<>> THEN <<>>
    ELSE (IF "content" \in DOMAIN Head(conversation)
          THEN ToolUseIds(Head(conversation).content) ELSE <<>>)
         \o RequestedIds(Tail(conversation))

\* C1: a request issues at most 10 model requests and ends in exactly one of
\* three outcomes: a structured decision, a max-iterations error, or an
\* input-rejected error (it never ends any other way).
C1_ThreeOutcomes ==
    /\ Len(requests) <= MAX_ITERATIONS
    /\ pc # "raised"
    /\ pc = "done" =>
          LET decided == response.structured_response # NoneV
              exhausted == response.error \in MaxIterationErrors
              rejected == Rejected /\ response.error =
                                          validate_input(user_query).error_message
          IN \/ decided /\ ~exhausted /\ ~rejected
             \/ ~decided /\ exhausted /\ ~rejected
             \/ ~decided /\ ~exhausted /\ rejected

\* C2: when the Input Guardrail rejects the query, no model request is issued and
\* no tool is executed, and the response has an empty tool-call trail, no
\* structured decision and the rejection error, in run and in run_streaming.
C2_RejectedBeforeModel ==
    (mode \in {"run", "streaming"} /\ pc # "start" /\ Rejected) =>
        /\ requests = <<>>
        /\ dispatched = <<>>
        /\ tool_calls = <<>>
        /\ pc \in {"rejected", "done"}
        /\ pc = "done" =>
              /\ response.tool_calls = <<>>
              /\ response.structured_response = NoneV
              /\ response.error = validate_input(user_query).error_message

C2_Witness ==
    /\ mode = "streaming"
    /\ pc = "done"
    /\ Rejected
    /\ response.error = "Input contains potentially harmful content"

\* C3: when 10 iterations pass without a final-answer turn the response is a
\* max-iterations error without a structured decision, and it carries the tool
\* calls made and the text the model produced during the loop.
C3_ExhaustionSurfacesHistory ==
    (pc = "done" /\ Len(requests) = MAX_ITERATIONS /\ turn.stop_reason # "end_turn") =>
        /\ response.error \in MaxIterationErrors
        /\ response.structured_response = NoneV
        /\ response.tool_calls = tool_calls
        /\ response.raw_response = model_text

\* C4: every tool request of a tool-invocation turn is dispatched exactly once and
\* has exactly one tool-result entry keyed to its id, in request order, and a
\* model request is only issued over a conversation whose tool requests all have
\* their results.
C4_EveryToolRequestAnswered ==
    /\ pc \in {"loop", "done", "raised"} =>
          /\ dispatched = RequestedIds(messages)
          /\ \A i \in 1..Len(messages) :
                "content" \in DOMAIN messages[i] =>
                    /\ i < Len(messages)
                    /\ "results" \in DOMAIN messages[i + 1]
                    /\ [k \in 1..Len(messages[i + 1].results) |->
                           messages[i + 1].results[k].tool_use_id]
                       = ToolUseIds(messages[i].content)
    /\ \A r \in 1..Len(requests) :
          "content" \notin DOMAIN requests[r][Len(requests[r])]

\* C5: a failing tool execution never ends the request: every dispatched tool
\* request leaves an entry in the trail and the loop goes on.
C5_ToolFailureNotFatal ==
    /\ pc # "raised"
    /\ pc \in {"loop", "done"} => Len(tool_calls) = Len(dispatched)

\* the amounts and retrieval confidences of a request, read from its trail
TrailAmounts(tcalls) ==
    LET found == {tcalls[i].input.amount :
                     i \in {j \in 1..Len(tcalls) :
                               /\ tcalls[j].tool = "policy_check_approval_threshold"
                               /\ "amount" \in DOMAIN tcalls[j].input}}
    IN IF found = {} THEN {NoneV} ELSE found

TrailRetrievalConfidences(tcalls) ==
    LET found == {tcalls[i].output.results[1].score :
                     i \in {j \in 1..Len(tcalls) :
                               /\ tcalls[j].output.kind = "search"
                               /\ tcalls[j].output.results # <<>>}}
    IN IF found = {} THEN {100} ELSE found

\* C9: the decision the agent returns requires escalation whenever
\* should_escalate is true for the request, whatever the model reported.
C9_EscalationIsOr ==
    (pc = "done" /\ response.structured_response # NoneV) =>
        \A amount \in TrailAmounts(response.tool_calls),
           rc \in TrailRetrievalConfidences(response.tool_calls) :
            should_escalate(rc, response.structured_response.confidence,
                            amount).escalate
                => response.structured_response.requires_escalation

-----------------------------------------------------------------------------
(* Properties of the tools and of should_escalate (specification SpecPure) *)

\* C6: execute_tool never raises, and returns an error payload for an unknown
\* tool name and for every input the declared schema of the tool rejects.
C6_DispatcherValidates ==
    call.op = "execute_tool" =>
        /\ call.result.kind # "raise"
        /\ ~DeclaredSchema(call.tool_name, call.tool_input) =>
              call.result.kind = "error"

\* C7: the band of an approval check is the threshold with the least amount_limit
\* among those with amount < amount_limit (strictly), the default rule when there
\* is none; under the ladder 500/2000/10000 an amount of 100 needs a Direct Manager
\* of level employee.level + 1, 1500 a Department Head, 15000 the CFO.
C7_FirstFittingBand ==
    (call.op = "check_approval_threshold" /\ call.result.kind = "approval") =>
        LET amount == call.params.amount.n
            result == call.result
            ladder == DictGet(call.rules, "thresholds", <<>>)
            fitting == {i \in 1..Len(ladder) : amount < ladder[i].amount_limit}
            default == DictGet(call.rules, "default_threshold",
                               [role |-> "CFO", min_level_absolute |-> 13])
        IN /\ fitting = {} =>
                 /\ result.required_approver_level = default.role
                 /\ result.minimum_approver_level_number = default.min_level_absolute
           /\ fitting # {} =>
                 \E i \in fitting :
                    /\ \A j \in fitting :
                          ladder[i].amount_limit <= ladder[j].amount_limit
                    /\ result.required_approver_level = ladder[i].role
                    /\ "min_level_offset" \in DOMAIN ladder[i] =>
                          result.minimum_approver_level_number
                              = result.employee.level + ladder[i].min_level_offset
                    /\ {"min_level_absolute"} = DOMAIN ladder[i]
                                                   \cap {"min_level_offset",
                                                         "min_level_absolute"} =>
                          result.minimum_approver_level_number
                              = ladder[i].min_level_absolute
           /\ call.rules \in {StandardRules, ShuffledRules} =>
                 /\ amount = 100 =>
                       /\ result.required_approver_level = "Direct Manager"
                       /\ result.minimum_approver_level_number
                              = result.employee.level + 1
                 /\ amount = 500 => result.required_approver_level = "Department Head"
                 /\ amount = 1500 => result.required_approver_level = "Department Head"
                 /\ amount = 2000 => result.required_approver_level = "VP"
                 /\ amount = 10000 => result.required_approver_level = "CFO"
                 /\ amount = 15000 => result.required_approver_level = "CFO"

C7_Witness ==
    /\ call.op = "check_approval_threshold"
    /\ call.rules = ShuffledRules
    /\ call.params.amount.n = 500
    /\ call.result.kind = "approval"
    /\ call.result.required_approver_level = "Department Head"

\* C8: every approval-threshold result reports can_self_approve = false, from the
\* MCP tool under every rule set and from the agent's local tool execution.
C8_NeverSelfApprove ==
    (call.op \in {"check_approval_threshold", "execute_tool"}
     /\ call.result.kind = "approval") => ~call.result.can_self_approve

\* C10: should_escalate is true exactly when retrieval_confidence < 0.6 or
\* decision_confidence < 0.7 or the amount is present and above 5000.
C10_EscalateExactly ==
    call.op = "should_escalate" =>
        (call.result.escalate <=>
            \/ call.retrieval_confidence < 60
            \/ call.response_confidence < 70
            \/ (call.amount.t = "num" /\ call.amount.n > 5000))

C10_Witness ==
    /\ call.op = "should_escalate"
    /\ call.retrieval_confidence = 100
    /\ call.response_confidence = 100
    /\ call.amount = Num(5001)
    /\ call.result.escalate
    /\ call.result.reason = "amount"

-----------------------------------------------------------------------------
(* Properties of the output guardrail                                      *)

\* C11: every decision validate_output accepts has its confidence in [0,1], a
\* reason of at least 10 characters, and confidence >= 0.5 or
\* requires_escalation = true; a decision with confidence 0.4 is rejected when
\* it does not require escalation and accepted when it does.
C11_AcceptedDecisionsSound ==
    call.op = "validate_output" =>
        /\ (call.result.kind = "return" /\ call.result.is_valid) =>
              /\ call.result.response.confidence = call.payload.data.confidence
              /\ call.result.response.reason = call.payload.data.reason
              /\ call.result.response.confidence >= 0
              /\ call.result.response.confidence <= 100
              /\ call.result.response.reason >= 10
              /\ \/ call.result.response.confidence >= 50
                 \/ call.result.response.requires_escalation
        /\ (/\ call.payload.syntax = "object"
            /\ DOMAIN call.payload.data = {"approved", "policy_reference", "reason",
                                            "confidence", "requires_escalation"}
            /\ call.payload.data.confidence = 40
            /\ call.payload.data.reason >= 10) =>
              /\ call.result.kind = "return"
              /\ call.result.is_valid = call.payload.data.requires_escalation

C11_Witness ==
    /\ call.op = "validate_output"
    /\ call.payload.syntax = "object"
    /\ call.payload.data.confidence = 40
    /\ call.result.kind = "return"
    /\ call.result.is_valid
    /\ call.result.response.requires_escalation

\* the text of the final-answer turn
FinalText == TextOf(turn.content)

\* the payload of the first fenced JSON block of a text passes validate_output
FirstBlockValid(text) ==
    \E i \in 1..Len(text) :
        /\ text[i].fence
        /\ \A j \in 1..(i - 1) : ~text[j].fence
        /\ text[i].payload.syntax = "object"
        /\ {"approved", "reason", "policy_reference", "confidence"}
               \subseteq DOMAIN text[i].payload.data
        /\ text[i].payload.data.reason >= 10
        /\ text[i].payload.data.confidence \in 0..100
        /\ \/ text[i].payload.data.confidence >= 50
           \/ /\ "requires_escalation" \in DOMAIN text[i].payload.data
              /\ text[i].payload.data.requires_escalation

\* C12: a request that ends with a final-answer turn returns the final text
\* unchanged, and returns a structured decision only if the first fenced JSON
\* block of that text is well-formed, fits the schema and is not low-confidence
\* without escalation; otherwise it returns no structured decision (and no
\* exception escapes).
C12_InvalidFinalAnswerKept ==
    (pc = "done" /\ turn.stop_reason = "end_turn") =>
        /\ response.raw_response = FinalText
        /\ response.error = "None"
        /\ ~FirstBlockValid(FinalText) => response.structured_response = NoneV
        /\ response.structured_response # NoneV =>
              /\ response.structured_response.confidence >= 0
              /\ response.structured_response.confidence <= 100
              /\ response.structured_response.reason >= 10
              /\ \/ response.structured_response.confidence >= 50
                 \/ response.structured_response.requires_escalation

\* C13: once the consumer of run_streaming has stopped pulling, no model request
\* is issued and no tool is executed any more.
C13_NoWorkAfterAbandon ==
    [][consumer = "gone" =>
          /\ requests' = requests
          /\ dispatched' = dispatched
          /\ tool_calls' = tool_calls]_vars

C13_Witness ==
    /\ consumer = "gone"
    /\ pc = "marker"
    /\ Len(requests) = 1
    /\ dispatched = <<>>

-----------------------------------------------------------------------------
(* Properties of the shared index and of the tools (specification          *)
(* SpecIndex)                                                              *)

\* C14: the policy index is constructed at most once in a process, also when
\* several threads call get_policy_index before it exists, and once constructed
\* its chunks and embedding matrix never change.
C14_IndexBuiltOnce ==
    /\ constructions <= 1
    /\ _policy_index # NoIndex => _policy_index = PolicyIndex(1)

\* C15: two executions of a tool with the same input give the same output
\* whatever runs in between, and once the index exists a tool execution changes
\* no state of the process that other executions use (the index, numpy's
\* global generator).
C15_ToolsReadOnlyIdempotent ==
    /\ [](\A e1, e2 \in executions :
             (e1.tool_name = e2.tool_name /\ e1.tool_input = e2.tool_input)
                 => e1.output = e2.output)
    /\ [][_policy_index # NoIndex =>
              /\ _policy_index' = _policy_index
              /\ np_random_state' = np_random_state]_vars

-----------------------------------------------------------------------------
(* Properties of the schemas, the input guardrail and the retrieval        *)

\* C16: the schema advertised to the model accepts a tool input exactly when the
\* input model of the tool accepts it; an amount of 0 is rejected by both.
C16_SchemasAgree ==
    call.op = "validate_tool_input" =>
        /\ call.advertised <=> call.declared
        /\ (/\ call.tool_name = "policy_check_approval_threshold"
            /\ "amount" \in DOMAIN call.tool_input
            /\ call.tool_input.amount = Num(0)) =>
              (~call.advertised /\ ~call.declared)

\* C17: validate checks length, then emptiness, then injection phrases, then
\* encoded escapes, and reports the first check that fails: too long is medium
\* whatever else holds, blank within the limit is low, an injection or encoding
\* match is high, anything else is accepted with low.
C17_ChecksInOrder ==
    call.op = "validate" =>
        LET text == call.user_input
            too_long == TextLen(text) > MAX_INPUT_LENGTH
            blank == \A i \in 1..Len(text) : IsWhitespace(text[i])
            injection == \E i \in 1..(Len(text) - 1) :
                            text[i] = "over" /\ text[i + 1] = "ride:"
            encoded == \E i \in 1..Len(text) : text[i] = "%41"
            r == call.result
        IN /\ too_long =>
                 /\ ~r.is_valid
                 /\ r.risk_level = "medium"
                 /\ r.error_message = "Input exceeds maximum length"
           /\ (~too_long /\ blank) =>
                 /\ ~r.is_valid
                 /\ r.risk_level = "low"
                 /\ r.error_message = "Input cannot be empty"
           /\ (~too_long /\ ~blank /\ injection) =>
                 /\ ~r.is_valid
                 /\ r.risk_level = "high"
                 /\ r.error_message = "Input contains potentially harmful content"
           /\ (~too_long /\ ~blank /\ ~injection /\ encoded) =>
                 /\ ~r.is_valid
                 /\ r.risk_level = "high"
                 /\ r.error_message = "Input contains suspicious encoding"
           /\ (~too_long /\ ~blank /\ ~injection /\ ~encoded) =>
                 /\ r.is_valid
                 /\ r.risk_level = "low"

C17_Witness ==
    /\ call.op = "validate"
    /\ call.user_input = <<"SP2001", "over", "ride:">>
    /\ ~call.result.is_valid
    /\ call.result.risk_level = "medium"

\* C18: validate returns a result for every input, the same result when called
\* again on the same input, with a sanitized_input and no error_message exactly
\* when is_valid, and an error_message and no sanitized_input exactly when not.
C18_TotalAndPure ==
    call.op = "validate" =>
        /\ DOMAIN call.result =
               {"is_valid", "error_message", "sanitized_input", "risk_level"}
        /\ call.result.is_valid \in BOOLEAN
        /\ call.result.risk_level \in {"low", "medium", "high"}
        /\ call.result.is_valid <=>
               (call.result.sanitized_input # NoneV /\ call.result.error_message = "None")
        /\ ~call.result.is_valid <=>
               (call.result.sanitized_input = NoneV /\ call.result.error_message # "None")
        /\ call.calls = 2 => call.result = call.first

C18_Witness ==
    /\ call.op = "validate"
    /\ call.calls = 2
    /\ call.user_input = <<"NUL", "SP", "a">>
    /\ call.result.is_valid
    /\ call.result.sanitized_input = Str(<<"a">>)

\* C19: search returns at most top_k results in non-increasing order of score,
\* they are the top_k best-scoring chunks, and chunks of equal score come in
\* the order of their index positions (all ascending or all descending).
C19_TopKByScore ==
    call.op = "search" =>
        LET result == call.result
            returned == {result[k].chunk : k \in 1..Len(result)}
            ties == {<<i, j>> \in (1..Len(result)) \X (1..Len(result)) :
                        i < j /\ result[i].score = result[j].score}
        IN /\ Len(result) <= call.top_k
           /\ Len(result) = IF call.top_k < NumChunks THEN call.top_k ELSE NumChunks
           /\ Cardinality(returned) = Len(result)
           /\ \A k \in 1..Len(result) : result[k].score = call.scores[result[k].chunk]
           /\ \A k \in 1..(Len(result) - 1) : result[k].score >= result[k + 1].score
           /\ \A c \in (1..NumChunks) \ returned :
                 \A k \in 1..Len(result) : call.scores[c] <= result[k].score
           /\ \/ \A p \in ties : result[p[1]].chunk < result[p[2]].chunk
              \/ \A p \in ties : result[p[1]].chunk > result[p[2]].chunk

\* C20: search_with_threshold reports is_confident exactly when one of the
\* returned results has a score >= the threshold, for every threshold, and
\* is_confident never turns from false to true when the threshold rises.
C20_ConfidentIffAboveThreshold ==
    call.op = "search_with_threshold" =>
        /\ call.is_confident <=>
               \E k \in 1..Len(call.results) : call.results[k].score >= call.threshold
        /\ \A t \in Thresholds :
               call.by_threshold[t] <=>
                   \E k \in 1..Len(call.results) : call.results[k].score >= t
        /\ \A t1, t2 \in Thresholds :
               (t1 <= t2 /\ call.by_threshold[t2]) => call.by_threshold[t1]

C20_Witness ==
    /\ call.op = "search_with_threshold"
    /\ call.query = Str(q_fly)
    /\ call.top_k = 2
    /\ call.threshold = 94
    /\ call.is_confident
    /\ ~call.by_threshold[95]

-----------------------------------------------------------------------------
(* C21..C30                                                                *)

ExpenseTypes == {travel, software, meals}

\* C21: two approval checks with the same employee, rule set and amount but
\* different expense types return the same required role, the same minimum
\* approver level and the same can_self_approve; only the recommendation
\* may differ.
C21_OutcomeIndependentOfType ==
    call.op = "check_approval_threshold" =>
        \A t \in ExpenseTypes :
            LET other == check_approval_threshold(
                             [call.params EXCEPT !.expense_type = Str(t)],
                             call.rules, EMPLOYEE_DATABASE)
            IN /\ other.kind = call.result.kind
               /\ call.result.kind = "approval" =>
                    /\ other.required_approver_level
                           = call.result.required_approver_level
                    /\ other.minimum_approver_level_number
                           = call.result.minimum_approver_level_number
                    /\ other.can_self_approve = call.result.can_self_approve

\* a travel check whose recommendation differs from the software one
C21_Witness ==
    /\ call.op = "check_approval_threshold"
    /\ call.result.kind = "approval"
    /\ call.params.expense_type = Str(travel)
    /\ call.rules = StandardRules
    /\ call.result.required_approver_level = "Department Head"
    /\ call.result.recommendation
          # check_approval_threshold(
                [call.params EXCEPT !.expense_type = Str(software)],
                call.rules, EMPLOYEE_DATABASE).recommendation

\* C22: the sanitized_input of an accepted query matches no configured
\* injection phrase and no encoded-escape pattern.
C22_SanitizedInputClean ==
    (call.op = "validate" /\ call.result.is_valid) =>
        /\ ~_check_injection_patterns(call.result.sanitized_input.s)
        /\ ~_check_encoding_attacks(call.result.sanitized_input.s)

\* C28: the sanitized_input of an accepted query is a non-empty string.
C28_SanitizedInputNonEmpty ==
    (call.op = "validate" /\ call.result.is_valid) =>
        /\ call.result.sanitized_input.t = "str"
        /\ call.result.sanitized_input.s # <<>>

\* C29: sanitizing a sanitized text changes nothing, and a sanitized text has no
\* NUL or control character, no whitespace at its ends and no run of two or
\* more whitespace characters.
C29_SanitizeIdempotentComplete ==
    call.op = "_sanitize" =>
        /\ call.twice = call.once
        /\ \A i \in 1..Len(call.once) : ~IsControl(call.once[i])
        /\ Strip(call.once) = call.once
        /\ \A i \in 1..(Len(call.once) - 1) :
              ~(IsWhitespace(call.once[i]) /\ IsWhitespace(call.once[i + 1]))

\* C30: validate_output raises for no response text; it returns a triple
\* with is_valid true exactly when the decision is non-null and the error
\* null, and false exactly when the decision is null and the error a message.
C30_ValidateOutputNeverRaises ==
    call.op = "validate_output" =>
        /\ call.result.kind = "return"
        /\ call.result.is_valid <=>
               (call.result.response # NoneV /\ call.result.error = "None")
        /\ ~call.result.is_valid <=>
               (call.result.response = NoneV /\ call.result.error # "None")

\* C24: under the standard ladder, for a known employee and an amount in
\* (0, 1000000], the minimum approver level returned by the approval check
\* (the MCP tool and the agent's local execution) is greater than the
\* employee's own level.
C24_ApproverOutranksRequester ==
    /\ (/\ call.op = "check_approval_threshold"
        /\ call.rules = StandardRules
        /\ call.result.kind = "approval")
       => call.result.minimum_approver_level_number > call.result.employee.level
    /\ (/\ call.op = "execute_tool"
        /\ call.tool_name = "policy_check_approval_threshold"
        /\ CheckApprovalInput(call.tool_input)
        /\ call.result.kind = "approval")
       => call.result.minimum_approver_level_number > call.result.employee.level

\* C25: under a rules file with the standard ladder, the agent's local
\* approval check and the MCP tool agree on every input: either both answer
\* with the same required role, minimum approver level and can_self_approve,
\* or neither answers with an approval result.
C25_LocalAndMcpAgree ==
    (call.op = "execute_tool" /\ call.tool_name = "policy_check_approval_threshold") =>
        \A rules \in {StandardRules, ShuffledRules, SelfApprovalRules} :
            LET local == call.result
                accepted == CheckApprovalInput(call.tool_input)
                mcp == IF accepted
                       THEN check_approval_threshold(call.tool_input, rules,
                                                     EMPLOYEE_DATABASE)
                       ELSE ErrorPayload("validation error")
            IN /\ (local.kind = "approval") <=> (mcp.kind = "approval")
               /\ (accepted /\ local.kind = "error") => mcp.kind = "error"
               /\ (local.kind = "approval" /\ mcp.kind = "approval") =>
                    /\ local.required_approver_level = mcp.required_approver_level
                    /\ local.minimum_approver_level_number
                           = mcp.minimum_approver_level_number
                    /\ local.can_self_approve = mcp.can_self_approve

\* C27: for max_results in 1..10 the policy-search tool returns exactly
\* min(max_results, number of indexed chunks) results.
C27_MaxResultsHonoured ==
    (/\ call.op = "execute_tool"
     /\ call.tool_name = "policy_search_manual"
     /\ SearchPolicyInput(call.tool_input)
     /\ "max_results" \in DOMAIN call.tool_input) =>
        LET max_results == call.tool_input.max_results.n
        IN /\ call.result.kind = "search"
           /\ Len(call.result.results)
                = (IF max_results < NumChunks THEN max_results ELSE NumChunks)

\* C23: whichever variant ran, a request that ends with a final-answer turn
\* returns the decision extracted from the text of that turn only (what run
\* returns for these model turns), and a tool-call trail with one entry per
\* tool request of the conversation, each holding the output of its tool.
C23_VariantsAgree ==
    (pc = "done" /\ turn.stop_reason = "end_turn") =>
        /\ response.structured_response
              = _process_final_response(TextOf(turn.content), tool_calls)
                    .structured_response
        /\ Len(response.tool_calls) = Len(RequestedIds(messages))
        /\ \A i \in 1..Len(response.tool_calls) :
              response.tool_calls[i].output
                = execute_tool(response.tool_calls[i].tool,
                               response.tool_calls[i].input)

\* C26: every model request after the first is issued over the conversation
\* of the previous request extended by exactly one assistant entry and one
\* tool-results entry, so no two requests of a run see the same conversation.
C26_ConversationGrows ==
    \A i \in 2..Len(requests) :
        LET prev == requests[i - 1]
            cur == requests[i]
        IN /\ Len(cur) = Len(prev) + 2
           /\ SubSeq(cur, 1, Len(prev)) = prev
           /\ cur[Len(prev) + 1].role = "assistant"
           /\ "content" \in DOMAIN cur[Len(prev) + 1]
           /\ cur[Len(prev) + 2].role = "user"
           /\ "results" \in DOMAIN cur[Len(prev) + 2]

====
